---------------------------- MODULE Spec2Model ----------------------------
(***************************************************************************)
(* Model of the two BiddingAssistant clients:                              *)
(*   - the web client         src/frontend/web/main.js                     *)
(*   - the WeChat mini-program src/frontend/miniprogram/pages/home/home.js *)
(* Both submit a text/file to the analysis service, poll the job until it  *)
(* is terminal and display the result.  The variable `client` selects      *)
(* which of the two programs a behaviour runs.                             *)
(*                                                                         *)
(* Display strings of the source are Chinese literals; the module writes   *)
(* them as ASCII transliterations, each introduced next to its source      *)
(* literal.                                                                *)
(***************************************************************************)
EXTENDS Naturals, Sequences, FiniteSets, TLC

(***************************************************************************)
(* Bounds                                                                  *)
(***************************************************************************)
\* number of submissions (Analyze clicks that start a request) in a run
MaxSubmits == 2
\* number of poll timers scheduled in a run, over all jobs
MaxPolls == 2

(***************************************************************************)
(* JavaScript values.  Every value is a record of the same shape:          *)
(*   t : the type tag, s : the characters of a string / number / function  *)
(*   k : the own keys of an object in insertion order                      *)
(*   v : the values of an object (parallel to k) or the items of an array  *)
(***************************************************************************)
Undef == [t |-> "undef", s |-> "", k |-> <<>>, v |-> <<>>]
Null == [t |-> "null", s |-> "", k |-> <<>>, v |-> <<>>]
Str(x) == [t |-> "str", s |-> x, k |-> <<>>, v |-> <<>>]
Num(x) == [t |-> "num", s |-> x, k |-> <<>>, v |-> <<>>]
Func(x) == [t |-> "func", s |-> x, k |-> <<>>, v |-> <<>>]
Arr(items) == [t |-> "arr", s |-> "", k |-> <<>>, v |-> items]
Obj(keys, vals) == [t |-> "obj", s |-> "", k |-> keys, v |-> vals]
EmptyObj == Obj(<<>>, <<>>)
EmptyArr == Arr(<<>>)

\* ToBoolean
Truthy(x) ==
  CASE x.t \in {"undef", "null"} -> FALSE
    [] x.t = "str" -> x.s # ""
    [] x.t = "num" -> x.s # "0"
    [] OTHER -> TRUE

\* a || b
Or(a, b) == IF Truthy(a) THEN a ELSE b

\* names of array indices
IdxName == <<"0", "1", "2", "3">>

\* Object.keys(x): the integer-like keys in ascending order first, then the
\* other keys in insertion order; a string sample has at most one character
OwnKeys(x) ==
  CASE x.t = "obj" ->
         SelectSeq(IdxName, LAMBDA n : \E i \in 1..Len(x.k) : x.k[i] = n)
         \o SelectSeq(x.k, LAMBDA n : \A i \in 1..Len(IdxName) : IdxName[i] # n)
    [] x.t = "arr" -> [i \in 1..Len(x.v) |-> IdxName[i]]
    [] x.t = "str" -> IF x.s = "" THEN <<>> ELSE <<"0">>
    [] OTHER -> <<>>

\* x[key] for a value x that is neither null nor undefined
Get(x, key) ==
  CASE x.t = "obj" ->
         IF \E i \in 1..Len(x.k) : x.k[i] = key
         THEN x.v[CHOOSE i \in 1..Len(x.k) : x.k[i] = key]
         ELSE Undef
    [] x.t = "arr" ->
         IF \E i \in 1..Len(x.v) : IdxName[i] = key
         THEN x.v[CHOOSE i \in 1..Len(x.v) : IdxName[i] = key]
         ELSE Undef
    [] x.t = "str" -> IF key = "0" /\ x.s # "" THEN x ELSE Undef
    [] OTHER -> Undef

\* reading a property of null or undefined throws a TypeError
Nullish(x) == x.t \in {"undef", "null"}

\* obj[key] = val : overwrite in place, or append the key
SetProp(o, key, val) ==
  IF \E i \in 1..Len(o.k) : o.k[i] = key
  THEN Obj(o.k, [i \in 1..Len(o.k) |-> IF o.k[i] = key THEN val ELSE o.v[i]])
  ELSE Obj(Append(o.k, key), Append(o.v, val))

\* { ...x } : the own enumerable properties of x
Spread(x) ==
  LET ks == OwnKeys(x)
  IN Obj(ks, [i \in 1..Len(ks) |-> Get(x, ks[i])])

\* String(x) as used for a property key
ToKey(x) ==
  CASE x.t \in {"str", "num"} -> x.s
    [] x.t = "undef" -> "undefined"
    [] x.t = "null" -> "null"
    [] x.t = "arr" -> IF Len(x.v) = 1 /\ x.v[1].t = "str" THEN x.v[1].s ELSE ""
    [] OTHER -> "[object Object]"

(***************************************************************************)
(* severityMap (both clients): critical '高风险', high '较高风险',         *)
(* medium '中风险', low '低风险'.  The map is an object literal, so a      *)
(* lookup also finds the properties inherited from Object.prototype.       *)
(***************************************************************************)
ObjectPrototypeKeys == {"constructor", "toString", "valueOf", "hasOwnProperty"}

severityMap(key) ==
  CASE key = "critical" -> Str("gao-fengxian")
    [] key = "high" -> Str("jiaogao-fengxian")
    [] key = "medium" -> Str("zhong-fengxian")
    [] key = "low" -> Str("di-fengxian")
    [] key \in ObjectPrototypeKeys -> Func(key)
    [] OTHER -> Undef

\* String.prototype.toLowerCase on the severity samples
ToLowerCase(x) ==
  CASE x = "HIGH" -> "high"
    [] x = "Urgent" -> "urgent"
    [] OTHER -> x

\* main.js, the severity pill of a critical item:
\*   const level = (item.severity || 'medium').toLowerCase()
\*   severity.textContent = severityMap[level] || level
WebSeverityLabel(item) ==
  LET level == ToLowerCase(ToKey(Or(Get(item, "severity"), Str("medium"))))
  IN Or(severityMap(level), Str(level))

(***************************************************************************)
(* home.js normalizeResult(result = {}).  The outcome is                   *)
(*   [threw |-> TRUE,  value |-> Undef]  when a TypeError is thrown,       *)
(*   [threw |-> FALSE, value |-> {summary, categories}] otherwise.         *)
(***************************************************************************)
\* one element of categories[cat].map(...)
NormalizeItem(item) ==
  LET sev == Get(item, "severity")
      a == SetProp(Spread(item), "severityLabel", Or(severityMap(ToKey(sev)), sev))
      b == SetProp(a, "items", Or(Get(item, "items"), EmptyArr))
  IN SetProp(b, "evidences", Or(Get(item, "evidences"), EmptyArr))

\* (categories[cat] || []) : .map exists on arrays only
CatList(categories, cat) == Or(Get(categories, cat), EmptyArr)

CatThrows(categories, cat) ==
  LET l == CatList(categories, cat)
  IN \/ l.t # "arr"
     \/ \E i \in 1..Len(l.v) : Nullish(l.v[i])

normalizeResult(arg) ==
  LET result == IF arg.t = "undef" THEN EmptyObj ELSE arg
  IN IF Nullish(result)
     THEN [threw |-> TRUE, value |-> Undef]
     ELSE
       LET categories == Or(Get(result, "categories"), EmptyObj)
           cats == OwnKeys(categories)
       IN IF \E c \in 1..Len(cats) : CatThrows(categories, cats[c])
          THEN [threw |-> TRUE, value |-> Undef]
          ELSE [threw |-> FALSE,
                value |-> Obj(<<"summary", "categories">>,
                  << Or(Get(result, "summary"), EmptyObj),
                     Obj(cats, [c \in 1..Len(cats) |->
                       LET l == CatList(categories, cats[c])
                       IN Arr([i \in 1..Len(l.v) |-> NormalizeItem(l.v[i])])]) >>)]


(***************************************************************************)
(* main.js renderResults(result) and the six section renderers.            *)
(* A card is the section title with the number of entries it lists; the    *)
(* titles are '关键/强制要求', '成本/商务影响', '时间计划', '风险与应对',  *)
(* '特殊发现', '澄清问题'.                                                 *)
(***************************************************************************)
SectionKeys ==
  << "critical_requirements", "cost_factors", "timeline", "risks",
     "unusual_findings", "clarification_needed" >>

SectionTitle ==
  << "guanjian/qiangzhi-yaoqiu", "chengben/shangwu-yingxiang", "shijian-jihua",
     "fengxian-yu-yingdui", "teshu-faxian", "chengqing-wenti" >>

\* the messages of the TypeErrors the renderers can raise
ErrReadNull == "Cannot read properties of null"
ErrNotAFunction == "wrapper.appendChild(...) is not a function"
ErrNoForEach == "data.forEach is not a function"

\* data.length as a condition
HasLength(data) ==
  CASE data.t = "arr" -> Len(data.v) > 0
    [] data.t = "str" -> data.s # ""
    [] data.t = "obj" -> Truthy(Get(data, "length"))
    [] OTHER -> FALSE

\* renderCostFactors, renderTimeline, renderRisks, renderUnusualFindings,
\* renderClarifications (data = []) : "skip", "card" or the error thrown
renderList(arg) ==
  LET data == IF arg.t = "undef" THEN EmptyArr ELSE arg
  IN CASE data.t = "null" -> ErrReadNull
       [] ~HasLength(data) -> "skip"
       [] data.t # "arr" -> ErrNoForEach
       [] \E i \in 1..Len(data.v) : Nullish(data.v[i]) -> ErrReadNull
       [] OTHER -> "card"

\* renderCriticalRequirements(data = []) : in the forEach body the statement
\*   wrapper.appendChild(h4)
\*   (group.items || []).forEach(...)
\* has no semicolon between its two lines, so it is the call
\* wrapper.appendChild(h4)(group.items || []), which throws for the first group
renderCriticalRequirements(arg) ==
  LET data == IF arg.t = "undef" THEN EmptyArr ELSE arg
  IN CASE data.t = "null" -> ErrReadNull
       [] ~HasLength(data) -> "skip"
       [] data.t # "arr" -> ErrNoForEach
       [] Nullish(data.v[1]) -> ErrReadNull
       [] OTHER -> ErrNotAFunction

renderSection(i, result) ==
  IF i = 1 THEN renderCriticalRequirements(Get(result, SectionKeys[i]))
  ELSE renderList(Get(result, SectionKeys[i]))

\* String(x) for textContent
ToText(x) ==
  CASE x.t \in {"str", "num"} -> x.s
    [] x.t = "arr" -> "[array]"
    [] OTHER -> "[object Object]"

\* renderSummary(text) : '模型未提供整体概述，可参考下方详细信息。' by default
NoSummaryText == "moxing-wei-tigong-zhengti-gaishu"

renderSummary(text) == IF Truthy(text) THEN ToText(text) ELSE NoSummaryText

\* the hint '未获得分析结果。' of renderResults
EmptyHint == "wei-huode-fenxi-jieguo"

\* renderResults(result), given the summary shown before the call:
\* the error thrown ("" if none), the summary and the cards shown after it
renderResults(result, oldSummary) ==
  IF ~Truthy(result)
  THEN [err |-> "", summary |-> oldSummary,
        results |-> << [title |-> EmptyHint, n |-> 0] >>]
  ELSE
    LET out(i) == renderSection(i, result)
        Bad == {i \in 1..6 : out(i) \notin {"skip", "card"}}
        stop == IF Bad = {} THEN 7 ELSE CHOOSE i \in Bad : \A j \in Bad : i <= j
        shown == SelectSeq(<<1, 2, 3, 4, 5, 6>>, LAMBDA i : i < stop /\ out(i) = "card")
    IN [err |-> IF stop = 7 THEN "" ELSE out(stop),
        summary |-> renderSummary(Get(result, "summary")),
        results |-> [x \in 1..Len(shown) |->
                       [title |-> SectionTitle[shown[x]],
                        n |-> Len(Get(result, SectionKeys[shown[x]]).v)]]]

(***************************************************************************)
(* The service.  A response body is a JavaScript object with any of the    *)
(* fields status, job_id, result, error.  The service names the job of the *)
(* n-th submission JobName[n].                                             *)
(***************************************************************************)
JobName == <<"job1", "job2", "job3", "job4">>

Jobs == 1..MaxSubmits

\* sample result payloads
Hit1 == Obj(<<"severity", "title">>, <<Str("critical"), Str("weiyi-pinpai")>>)
\* Scenario A: the category-hit shape
PCategoryHit ==
  Obj(<<"categories", "summary">>,
      << Obj(<<"lanbiaoxiang">>, <<Arr(<<Hit1>>)>>),
         Obj(<<"lanbiaoxiang">>, <<Num("1")>>) >>)
PCategoryNull == Obj(<<"categories">>, <<Obj(<<"c1">>, <<Null>>)>>)
PCategoryNotList == Obj(<<"categories">>, <<Obj(<<"c1">>, <<Str("x")>>)>>)
PHitNull == Obj(<<"categories">>, <<Obj(<<"c1">>, <<Arr(<<Null>>)>>)>>)
\* the structured-section shape
Risk1 == Obj(<<"type">>, <<Str("jiaofu")>>)
Item1 == Obj(<<"title", "severity">>, <<Str("zizhi"), Str("HIGH")>>)
Group1 == Obj(<<"category", "items">>, <<Str("zige"), Arr(<<Item1>>)>>)
PRisks == Obj(<<"summary", "risks">>, <<Str("gaishu"), Arr(<<Risk1>>)>>)
PCritical ==
  Obj(<<"summary", "critical_requirements", "risks">>,
      <<Str("gaishu"), Arr(<<Group1>>), Arr(<<Risk1>>)>>)

\* the payloads the service answers with in the model
Payloads ==
  { EmptyObj, PCategoryHit, PCategoryNull, PCategoryNotList, PHitNull,
    PRisks, PCritical }

\* the result field of a response: absent (null behaves alike: both clients
\* only test it for truthiness) or a payload
ResultFields == {Undef} \cup Payloads

\* the status field of a response: absent or one of the service's statuses
StatusFields == {Undef, Str("processing"), Str("completed"), Str("failed")}

\* a response body without the absent fields
Body(status, jobId, result, error) ==
  LET ks == <<"status", "job_id", "result", "error">>
      vs == <<status, jobId, result, error>>
      present == SelectSeq(<<1, 2, 3, 4>>, LAMBDA i : vs[i].t # "undef")
  IN Obj([i \in 1..Len(present) |-> ks[present[i]]],
         [i \in 1..Len(present) |-> vs[present[i]]])

\* the bodies the service may answer a request about job n with
\* (the service sets error on a failed job only; no client reads it otherwise)
Bodies(n) ==
  { Body(st, id, res, Undef) :
      st \in StatusFields, id \in {Undef, Str(JobName[n])}, res \in ResultFields }
  \cup
  { Body(Str("failed"), id, res, Str("jiexi-shibai")) :
      id \in {Undef, Str(JobName[n])}, res \in ResultFields }

\* the body of a non-success HTTP response: empty, or an error description
ErrorBody == Obj(<<"detail">>, <<Str("Internal Server Error")>>)

HttpBodies == {Str(""), ErrorBody}

\* resp.text() of such a body
BodyText(b) == IF b.t = "str" THEN b.s ELSE "{detail: Internal Server Error}"

\* how a request ends: "ok" (2xx with a body), "http" (non-success status,
\* 500 in the model) or "network" (no response)
Nets == {"ok", "http", "network"}

(***************************************************************************)
(* State                                                                   *)
(***************************************************************************)
VARIABLES
  client,     \* "web" (main.js) or "mini" (home.js)
  nSubmit,    \* number of submission requests started so far
  requests,   \* submission requests in flight (submission numbers)
  timers,     \* pending setTimeout callbacks: [id, jobId, sub, delay]
  nTimer,     \* number of timer handles handed out so far
  polls,      \* status requests GET /jobs/{jobId} in flight: [id, jobId, sub]
  pollTimer,  \* web: the module variable pollTimer, 0 for null
  els,        \* web: the DOM elements the code writes
  data,       \* mini: the page data
  toast,      \* mini: title of the last wx.showToast
  outcomes,   \* history: per submission, the outcomes shown for it
  superseded, \* history: submissions that were polling when a later one started
  cleared,    \* history: Clear was clicked while the latest submission was in progress
  last        \* history: the event handled by the last step

vars ==
  << client, nSubmit, requests, timers, nTimer, polls, pollTimer, els,
     data, toast, outcomes, superseded, cleared, last >>

\* the fixed delay of pollJob (main.js) and of _pollJob (home.js)
WebPollDelay == 1600
MiniPollDelay == 1500

\* submissions with a pending poll timer or a status request in flight
Polling == {t.sub : t \in timers} \cup {p.sub : p \in polls}

\* submissions with any request or timer outstanding
InProgress == requests \cup Polling

NoBody == Undef

Event(kind, sub, net, body) == [kind |-> kind, sub |-> sub, net |-> net, body |-> body]

\* an outcome is shown for a submission: "result" or "error"
Deliver(sub, kind) == [outcomes EXCEPT ![sub] = Append(@, kind)]

(***************************************************************************)
(* main.js: the DOM helpers                                                *)
(***************************************************************************)
ElsInit ==
  [ status |-> [text |-> "", hidden |-> TRUE, error |-> FALSE],
    progress |-> [text |-> "", hidden |-> TRUE],
    analyzeDisabled |-> FALSE,
    summary |-> "",
    results |-> <<>> ]

setStatus(e, message, type) ==
  [e EXCEPT !.status = [text |-> message, hidden |-> FALSE, error |-> (type = "error")]]

clearStatus(e) ==
  [e EXCEPT !.status = [text |-> "", hidden |-> TRUE, error |-> FALSE]]

showProgress(e, message) ==
  [e EXCEPT !.progress = [text |-> message, hidden |-> FALSE]]

hideProgress(e) == [e EXCEPT !.progress.hidden = TRUE]

\* clearTimeout(handle): a handle that is null, fired or cleared is ignored
clearTimeout(ts, handle) == {t \in ts : t.id # handle}

\* the DOM part of clearResults()
clearResultsEls(e) == [e EXCEPT !.summary = "", !.results = <<>>]

\* display texts of main.js
\*   '正在处理：${file.name}'        '正在上传文件并解析内容...'
\*   '正在分析文本...'               '请先上传文件或粘贴文本'
\*   '模型分析中...'                 '分析完成 ✅'
\*   '分析失败'                      '轮询失败 ${resp.status}'
\*   '请求失败'
TxtProcessingFile == "zhengzai-chuli: file"
TxtUploading == "zhengzai-shangchuan-wenjian"
TxtAnalyzingText == "zhengzai-fenxi-wenben"
TxtNeedInput == "qing-xian-shangchuan-huo-zhantie"
TxtModelRunning == "moxing-fenxi-zhong"
TxtDone == "fenxi-wancheng [check mark]"
TxtFailed == "fenxi-shibai"
TxtPollFailed == "lunxun-shibai 500"
TxtRequestFailed == "qingqiu-shibai"
\* message of the TypeError a rejected fetch carries
TxtFetchRejected == "Failed to fetch"
\* `HTTP ${resp.status}`
TxtHttpStatus == "HTTP 500"

(***************************************************************************)
(* main.js: the handlers                                                   *)
(***************************************************************************)
\* setTimeout(callback, delay) of pollJob / _pollJob for submission sub;
\* main.js keeps the handle in pollTimer, home.js drops it
SetTimeout(ts, sub, jobId, delay) ==
  /\ nTimer < MaxPolls
  /\ nTimer' = nTimer + 1
  /\ timers' = ts \cup {[id |-> nTimer + 1, jobId |-> jobId, sub |-> sub, delay |-> delay]}

\* the end of a successful analysis: setStatus('分析完成 ✅'), hideProgress(),
\* els.analyze.disabled = false
WebDone(e) == [hideProgress(setStatus(e, TxtDone, "info")) EXCEPT !.analyzeDisabled = FALSE]

\* a catch block: setStatus(message, 'error'), hideProgress(),
\* els.analyze.disabled = false
WebFail(e, message) ==
  [hideProgress(setStatus(e, message, "error")) EXCEPT !.analyzeDisabled = FALSE]

\* (a variant of ClickCatch that leaves the Analyze button disabled)
ClickCatchKeepsDisabled(e, message) ==
  hideProgress(setStatus(e, IF message # "" THEN message ELSE TxtRequestFailed, "error"))

\* the catch block of the click handler: err.message || '请求失败'
ClickCatch(e, message) == WebFail(e, IF message # "" THEN message ELSE TxtRequestFailed)

\* els after renderResults(result) wrote the summary and the cards
Rendered(e, r) == [e EXCEPT !.summary = r.summary, !.results = r.results]

\* what the user has put in the inputs at a click: a file (with or without a
\* text), a text only, or nothing
WebInputs == {"file", "text", "none"}

\* The Analyze button, clicked with `input` in the inputs: clearStatus(),
\* clearResults(), then analyzeFile / analyzeText up to the fetch, or the
\* 'no input' message.  A disabled button does not dispatch click events.
WebAnalyzeClick(input) ==
  /\ client = "web"
  /\ ~els.analyzeDisabled
  /\ input # "none" => nSubmit < MaxSubmits
  /\ timers' = IF pollTimer # 0 THEN clearTimeout(timers, pollTimer) ELSE timers
  /\ pollTimer' = 0
  /\ LET e0 == clearResultsEls(clearStatus(els))
         n == nSubmit + 1
     IN IF input = "none"
        THEN /\ els' = setStatus(e0, TxtNeedInput, "error")
             /\ last' = Event("analyze", 0, "", NoBody)
             /\ UNCHANGED <<nSubmit, requests, superseded, cleared>>
        ELSE /\ els' = [ (IF input = "file"
                          THEN showProgress(setStatus(e0, TxtProcessingFile, "info"), TxtUploading)
                          ELSE showProgress(e0, TxtAnalyzingText))
                         EXCEPT !.analyzeDisabled = TRUE ]
             /\ nSubmit' = n
             /\ requests' = requests \cup {n}
             /\ superseded' = superseded \cup Polling
             /\ cleared' = FALSE
             /\ last' = Event("analyze", n, "", NoBody)
  /\ UNCHANGED <<client, nTimer, polls, data, toast, outcomes>>

\* handleJobResponse(resp) for a 2xx response, with the catch block of the
\* click handler around it
handleJobResponse(n, body) ==
  IF Truthy(Get(body, "status")) /\ ~Truthy(Get(body, "result"))
  THEN IF Truthy(Get(body, "job_id"))
       THEN /\ SetTimeout(timers, n, Get(body, "job_id").s, WebPollDelay)
            /\ pollTimer' = nTimer + 1
            /\ els' = showProgress(els, TxtModelRunning)
            /\ UNCHANGED outcomes
       ELSE /\ els' = [showProgress(els, TxtModelRunning) EXCEPT !.analyzeDisabled = FALSE]
            /\ UNCHANGED <<timers, nTimer, pollTimer, outcomes>>
  ELSE LET r == renderResults(Or(Get(body, "result"), body), els.summary)
       IN /\ IF r.err # ""
             THEN /\ els' = ClickCatch(Rendered(els, r), r.err)
                  /\ outcomes' = Deliver(n, "error")
             ELSE /\ els' = WebDone(Rendered(els, r))
                  /\ outcomes' = Deliver(n, "result")
          /\ UNCHANGED <<timers, nTimer, pollTimer>>

\* the submission request of submission n ends
WebSubmitResponse(n, net, body) ==
  /\ client = "web"
  /\ n \in requests
  /\ requests' = requests \ {n}
  /\ last' = Event("submitResp", n, net, body)
  /\ CASE net = "ok" -> handleJobResponse(n, body)
       [] net = "http" ->
            \* throw new Error(text || `HTTP ${resp.status}`)
            LET message == IF BodyText(body) # "" THEN BodyText(body) ELSE TxtHttpStatus
            IN /\ els' = ClickCatch(els, message)
               /\ outcomes' = Deliver(n, "error")
               /\ UNCHANGED <<timers, nTimer, pollTimer>>
       [] net = "network" ->
            /\ els' = ClickCatch(els, TxtFetchRejected)
            /\ outcomes' = Deliver(n, "error")
            /\ UNCHANGED <<timers, nTimer, pollTimer>>
  /\ UNCHANGED <<client, nSubmit, polls, data, toast, superseded, cleared>>

\* (a variant of WebTimerFire whose timer stays pending, as a setInterval
\* timer would)
WebTimerFireRepeats(t) ==
  /\ client = "web"
  /\ t \in timers
  /\ polls' = polls \cup {[id |-> t.id, jobId |-> t.jobId, sub |-> t.sub]}
  /\ last' = Event("timer", t.sub, "", NoBody)
  /\ UNCHANGED <<client, nSubmit, requests, timers, nTimer, pollTimer, els, data,
                 toast, outcomes, superseded, cleared>>

\* the timer of pollJob fires: the callback starts and issues
\* fetch(`${API_BASE}/jobs/${jobId}`); pollTimer keeps the fired handle
WebTimerFire(t) ==
  /\ client = "web"
  /\ t \in timers
  /\ timers' = timers \ {t}
  /\ polls' = polls \cup {[id |-> t.id, jobId |-> t.jobId, sub |-> t.sub]}
  /\ last' = Event("timer", t.sub, "", NoBody)
  /\ UNCHANGED <<client, nSubmit, requests, nTimer, pollTimer, els, data,
                 toast, outcomes, superseded, cleared>>

\* the catch block of the pollJob callback
WebPollCatch(p, e, message) ==
  /\ timers' = clearTimeout(timers, pollTimer)
  /\ pollTimer' = 0
  /\ els' = WebFail(e, message)
  /\ outcomes' = Deliver(p.sub, "error")
  /\ UNCHANGED nTimer

\* the status request p ends: the rest of the pollJob callback
WebPollResponse(p, net, body) ==
  /\ client = "web"
  /\ p \in polls
  /\ polls' = polls \ {p}
  /\ last' = Event("pollResp", p.sub, net, body)
  /\ CASE net = "network" -> WebPollCatch(p, els, TxtFetchRejected)
       [] net = "http" -> WebPollCatch(p, els, TxtPollFailed)
       [] net = "ok" /\ Get(body, "status") = Str("completed") ->
            LET r == renderResults(Or(Get(body, "result"), EmptyObj), els.summary)
            IN IF r.err # ""
               THEN WebPollCatch(p, Rendered(els, r), r.err)
               ELSE /\ timers' = clearTimeout(timers, pollTimer)
                    /\ pollTimer' = 0
                    /\ els' = WebDone(Rendered(els, r))
                    /\ outcomes' = Deliver(p.sub, "result")
                    /\ UNCHANGED nTimer
       [] net = "ok" /\ Get(body, "status") = Str("failed") ->
            LET message == ToText(Or(Get(body, "error"), Str(TxtFailed)))
            IN /\ timers' = clearTimeout(timers, pollTimer)
               /\ pollTimer' = 0
               /\ els' = WebFail(els, message)
               /\ outcomes' = Deliver(p.sub, "error")
               /\ UNCHANGED nTimer
       [] OTHER ->
            /\ SetTimeout(timers, p.sub, p.jobId, WebPollDelay)
            /\ pollTimer' = nTimer + 1
            /\ UNCHANGED <<els, outcomes>>
  /\ UNCHANGED <<client, nSubmit, requests, data, toast, superseded, cleared>>

\* The Clear button: clearResults(), clearStatus(), hideProgress(),
\* els.analyze.disabled = false (and the inputs are emptied)
WebClearClick ==
  /\ client = "web"
  /\ timers' = IF pollTimer # 0 THEN clearTimeout(timers, pollTimer) ELSE timers
  /\ pollTimer' = 0
  /\ els' = [hideProgress(clearStatus(clearResultsEls(els))) EXCEPT !.analyzeDisabled = FALSE]
  /\ cleared' = (cleared \/ nSubmit \in InProgress)
  /\ last' = Event("clear", 0, "", NoBody)
  /\ UNCHANGED <<client, nSubmit, requests, nTimer, polls, data, toast, outcomes, superseded>>

(***************************************************************************)
(* home.js: the page                                                       *)
(***************************************************************************)
DataInit ==
  [ result |-> Null, keys |-> <<>>, summary |-> EmptyObj, summaryKeys |-> <<>>,
    jobId |-> Null, status |-> "", loading |-> FALSE ]

\* display texts of home.js
\*   '请先粘贴文本'    '分析中...请稍候'   '接口请求失败'   '分析完成'
\*   '分析失败'        '分析进行中...'     '未返回任务 ID'  '轮询失败'
MiniNeedText == "qing-xian-zhantie-wenben"
MiniAnalyzing == "fenxi-zhong-qing-shaohou"
MiniRequestFailed == "jiekou-qingqiu-shibai"
MiniDone == "fenxi-wancheng"
MiniFailed == "fenxi-shibai"
MiniRunning == "fenxi-jinxing-zhong"
MiniNoJobId == "wei-fanhui-renwu-ID"
MiniPollFailed == "lunxun-shibai"

\* the texts the input box may hold: empty, blank, a document
MiniInputs == {"", " ", "doc"}

\* String.prototype.trim on these texts
Trim(text) == IF text = " " THEN "" ELSE text

\* onAnalyze() up to wx.request, with data.input = input
MiniOnAnalyze(input) ==
  /\ client = "mini"
  /\ IF Trim(input) = ""
     THEN /\ toast' = MiniNeedText
          /\ last' = Event("analyze", 0, "", NoBody)
          /\ UNCHANGED <<data, nSubmit, requests, superseded, cleared>>
     ELSE /\ nSubmit < MaxSubmits
          /\ data' = [DataInit EXCEPT !.loading = TRUE, !.status = MiniAnalyzing]
          /\ nSubmit' = nSubmit + 1
          /\ requests' = requests \cup {nSubmit + 1}
          /\ superseded' = superseded \cup Polling
          /\ cleared' = FALSE
          /\ last' = Event("analyze", nSubmit + 1, "", NoBody)
          /\ UNCHANGED toast
  /\ UNCHANGED <<client, timers, nTimer, polls, pollTimer, els, outcomes>>

\* _handleJob(job), called from a success callback of wx.request for
\* submission sub; an exception of normalizeResult leaves the callback
\* before any setData
HandleJob(sub, job) ==
  LET status == Or(Get(job, "status"), Str(""))
      jobId == Or(Get(job, "job_id"), Null)
  IN CASE status = Str("completed") /\ Truthy(Get(job, "result")) ->
            LET nr == normalizeResult(Get(job, "result"))
                categories == Or(Get(nr.value, "categories"), EmptyObj)
                summary == Or(Get(nr.value, "summary"), EmptyObj)
            IN IF nr.threw
               THEN UNCHANGED <<data, toast, outcomes, timers, nTimer>>
               ELSE /\ data' = [ result |-> nr.value, keys |-> OwnKeys(categories),
                                 summary |-> summary, summaryKeys |-> OwnKeys(summary),
                                 jobId |-> jobId, status |-> MiniDone, loading |-> FALSE ]
                    /\ outcomes' = Deliver(sub, "result")
                    /\ UNCHANGED <<toast, timers, nTimer>>
       [] status = Str("failed") ->
            LET message == ToText(Or(Get(job, "error"), Str(MiniFailed)))
            IN /\ toast' = message
               /\ data' = [data EXCEPT !.loading = FALSE, !.status = message, !.jobId = jobId]
               /\ outcomes' = Deliver(sub, "error")
               /\ UNCHANGED <<timers, nTimer>>
       [] OTHER ->
            IF Truthy(Get(job, "job_id"))
            THEN /\ data' = [data EXCEPT !.jobId = jobId, !.status = MiniRunning, !.loading = TRUE]
                 /\ SetTimeout(timers, sub, jobId.s, MiniPollDelay)
                 /\ UNCHANGED <<toast, outcomes>>
            ELSE /\ data' = [data EXCEPT !.loading = FALSE, !.status = MiniNoJobId]
                 /\ outcomes' = Deliver(sub, "error")
                 /\ UNCHANGED <<toast, timers, nTimer>>

\* The wx.request of onAnalyze ends.  wx.request calls `success` for every
\* HTTP response, whatever its status code, and `fail` only when no response
\* arrives; res.data is the parsed body.
MiniSubmitResponse(n, net, body) ==
  /\ client = "mini"
  /\ n \in requests
  /\ requests' = requests \ {n}
  /\ last' = Event("submitResp", n, net, body)
  /\ IF net = "network"
     THEN /\ toast' = MiniRequestFailed
          /\ data' = [data EXCEPT !.loading = FALSE, !.status = MiniRequestFailed]
          /\ outcomes' = Deliver(n, "error")
          /\ UNCHANGED <<timers, nTimer>>
     ELSE HandleJob(n, Or(body, EmptyObj))
  /\ UNCHANGED <<client, nSubmit, polls, pollTimer, els, superseded, cleared>>

\* the timer of _pollJob fires and issues wx.request GET /jobs/{jobId}
MiniTimerFire(t) ==
  /\ client = "mini"
  /\ t \in timers
  /\ timers' = timers \ {t}
  /\ polls' = polls \cup {[id |-> t.id, jobId |-> t.jobId, sub |-> t.sub]}
  /\ last' = Event("timer", t.sub, "", NoBody)
  /\ UNCHANGED <<client, nSubmit, requests, nTimer, pollTimer, els, data,
                 toast, outcomes, superseded, cleared>>

\* the wx.request of _pollJob ends
MiniPollResponse(p, net, body) ==
  /\ client = "mini"
  /\ p \in polls
  /\ polls' = polls \ {p}
  /\ last' = Event("pollResp", p.sub, net, body)
  /\ IF net = "network"
     THEN /\ data' = [data EXCEPT !.loading = FALSE, !.status = MiniPollFailed,
                                  !.jobId = Str(p.jobId)]
          /\ outcomes' = Deliver(p.sub, "error")
          /\ UNCHANGED <<toast, timers, nTimer>>
     ELSE HandleJob(p.sub, Or(body, EmptyObj))
  /\ UNCHANGED <<client, nSubmit, requests, pollTimer, els, superseded, cleared>>

(***************************************************************************)
(* The specification                                                       *)
(***************************************************************************)
Init ==
  /\ client \in {"web", "mini"}
  /\ nSubmit = 0
  /\ requests = {}
  /\ timers = {}
  /\ nTimer = 0
  /\ polls = {}
  /\ pollTimer = 0
  /\ els = ElsInit
  /\ data = DataInit
  /\ toast = ""
  /\ outcomes = [n \in Jobs |-> <<>>]
  /\ superseded = {}
  /\ cleared = FALSE
  /\ last = Event("init", 0, "", NoBody)

\* the ways a request about submission n may end
Ends(n) ==
  ({"ok"} \X Bodies(n)) \cup ({"http"} \X HttpBodies) \cup ({"network"} \X {NoBody})

Next ==
  \/ \E v \in WebInputs : WebAnalyzeClick(v)
  \/ \E n \in Jobs : \E e \in Ends(n) : WebSubmitResponse(n, e[1], e[2])
  \/ \E t \in timers : WebTimerFire(t)
  \/ \E p \in polls : \E e \in Ends(p.sub) : WebPollResponse(p, e[1], e[2])
  \/ WebClearClick
  \/ \E v \in MiniInputs : MiniOnAnalyze(v)
  \/ \E n \in Jobs : \E e \in Ends(n) : MiniSubmitResponse(n, e[1], e[2])
  \/ \E t \in timers : MiniTimerFire(t)
  \/ \E p \in polls : \E e \in Ends(p.sub) : MiniPollResponse(p, e[1], e[2])

Spec == Init /\ [][Next]_vars

(***************************************************************************)
(* The normalizer on its own: the mini-program answers every submission    *)
(* with status completed and a category-hit payload drawn from a family of *)
(* payloads, so that every step of a response applies normalizeResult.     *)
(* The k of a payload object is the order of the keys in the response.     *)
(***************************************************************************)
\* categories per payload and hits per category in the family
MaxCats == 2
MaxHits == 2

\* category names: '拦标项' and two names that are integer-like
CatNames == {"lanbiaoxiang", "2", "1"}

\* severity codes: the four known ones, an unknown one in mixed case, an
\* unknown one in upper case and the name of a property every object inherits
SeverityCodes == {"critical", "high", "medium", "low"}
SeveritySamples == SeverityCodes \cup {"Urgent", "HIGH", "constructor"}

HitOf(sev) == Obj(<<"severity", "title">>, <<Str(sev), Str("weiyi-pinpai")>>)

\* a hit with a field the normalizer does not read
HitExtra ==
  Obj(<<"severity", "title", "debug_trace">>, <<Str("low"), Str("weiyi-pinpai"), Str("r-17")>>)

HitSamples == {HitOf(sev) : sev \in SeveritySamples} \cup {HitExtra}

\* the sequences over S of length at most n
SeqsUpTo(S, n) == UNION {[1..m -> S] : m \in 0..n}

CatNameSeqs ==
  {ns \in SeqsUpTo(CatNames, MaxCats) : \A i, j \in 1..Len(ns) : ns[i] = ns[j] => i = j}

HitLists == SeqsUpTo(HitSamples, MaxHits)

\* a category-hit payload: the first category holds the hits hl, the others
\* one hit; `extra` adds a top-level field the normalizer does not read
CatPayload(ns, hl, extra) ==
  LET cats == Obj(ns, [i \in 1..Len(ns) |-> IF i = 1 THEN Arr(hl) ELSE Arr(<<HitOf("high")>>)])
      summary == Obj(ns, [i \in 1..Len(ns) |-> Num("1")])
  IN IF extra
     THEN Obj(<<"categories", "summary", "model_version">>, <<cats, summary, Str("v2")>>)
     ELSE Obj(<<"categories", "summary">>, <<cats, summary>>)

\* the family: every order of the category names with one hit each, and
\* every hit list in one category, with and without the extra field
NormPayloads ==
  {CatPayload(ns, <<HitOf("critical")>>, FALSE) : ns \in CatNameSeqs}
  \cup {CatPayload(<<"lanbiaoxiang">>, hl, extra) : hl \in HitLists, extra \in BOOLEAN}

NormInit == Init /\ client = "mini"

NormNext ==
  \/ MiniOnAnalyze("doc")
  \/ \E n \in Jobs : \E p \in NormPayloads :
       MiniSubmitResponse(n, "ok", Body(Str("completed"), Undef, p, Undef))

SpecNormalize == NormInit /\ [][NormNext]_vars

(***************************************************************************)
(* Vocabulary of the properties                                            *)
(***************************************************************************)
\* the busy indicator is off: the progress bar (web), data.loading (mini)
BusyCleared == IF client = "web" THEN els.progress.hidden ELSE ~data.loading

\* a new submission can be started
Ready == IF client = "web" THEN ~els.analyzeDisabled ELSE ~data.loading

\* the text of the status line
StatusText == IF client = "web" THEN els.status.text ELSE data.status

\* the status line shows an error
ErrorShown ==
  IF client = "web"
  THEN els.status.error /\ ~els.status.hidden /\ els.status.text # ""
  ELSE data.status \in {MiniRequestFailed, MiniFailed, MiniNoJobId, MiniPollFailed,
                        "jiexi-shibai"}

\* the last step handled a response the service answered (a 2xx body)
Answered(kind) == last.kind = kind /\ last.net = "ok"

\* the last step handled a request that failed at the transport level
TransportFailed(kind) == last.kind = kind /\ last.net \in {"http", "network"}

LastStatus == Get(last.body, "status")
LastHasJobId == Truthy(Get(last.body, "job_id"))
LastHasResult == Truthy(Get(last.body, "result"))

\* the outstanding poll timers and status requests of submission j
TimersOf(j) == {t \in timers : t.sub = j}
PollsOf(j) == {p \in polls : p.sub = j}

(***************************************************************************)
(* Properties                                                              *)
(***************************************************************************)

\* C1: once a later submission has started while job j was being polled (its
\* poll timer pending or its status request in flight), no step delivers an
\* outcome of job j to the display any more.
C1_SupersededJobStaysSilent ==
  [][\A j \in Jobs : j \in superseded => outcomes'[j] = outcomes[j]]_vars

\* C2: a submission that is neither superseded nor cleared and has nothing
\* outstanding any more (every call has returned, no poll is pending) has
\* been given exactly one outcome.
C2_ExactlyOneOutcome ==
  (nSubmit >= 1 /\ ~cleared /\ nSubmit \notin InProgress)
    => Len(outcomes[nSubmit]) = 1

\* C3: at most one job has a pending poll timer or a status request in flight.
C3_OnePollSequence == Cardinality(Polling) <= 1

\* C4: a response with a job id, a non-terminal status and no result leaves
\* exactly one poll scheduled for the job; a poll response with status
\* completed and a result delivers the result and leaves no poll of the job
\* behind, and a job that has its outcome is not polled.
C4_PollUntilCompleted ==
  /\ ( (Answered("submitResp") \/ Answered("pollResp"))
       /\ LastStatus = Str("processing") /\ LastHasJobId /\ ~LastHasResult )
     => ( Cardinality(TimersOf(last.sub)) = 1 /\ PollsOf(last.sub) = {} )
  /\ ( Answered("pollResp") /\ LastStatus = Str("completed") /\ LastHasResult )
     => ( outcomes[last.sub] = <<"result">> /\ last.sub \notin Polling )
  /\ \A j \in Jobs : outcomes[j] # <<>> => j \notin Polling

\* C5: a submission response with a non-terminal status and no job id (and no
\* result) is reported as an error at once, the busy indicator is cleared and
\* no poll is scheduled.
C5_NoJobIdIsAnError ==
  ( Answered("submitResp") /\ LastStatus = Str("processing")
    /\ ~LastHasJobId /\ ~LastHasResult )
  => ( outcomes[last.sub] = <<"error">> /\ ErrorShown /\ BusyCleared
       /\ last.sub \notin Polling )

\* C6: a response with status failed (to the submission or to a poll) ends
\* the job at once: the service's message, or the default one, is shown as the
\* error, no result is delivered and no poll of the job is left.
C6_FailedIsTerminal ==
  ( (Answered("submitResp") \/ Answered("pollResp")) /\ LastStatus = Str("failed") )
  => ( /\ outcomes[last.sub] = <<"error">>
       /\ ErrorShown
       /\ StatusText = ToText(Or(Get(last.body, "error"), Str(TxtFailed)))
       /\ last.sub \notin Polling )

\* C7: a poll request that fails at the transport level (no response, or a
\* non-success HTTP response) is reported as an error with a poll-failure
\* message (the client's own, or the transport's), the busy indicator is
\* cleared and no poll of the job is left.
C7_PollTransportFailure ==
  TransportFailed("pollResp")
  => ( /\ outcomes[last.sub] = <<"error">>
       /\ ErrorShown
       /\ StatusText \in {TxtPollFailed, TxtFetchRejected, MiniPollFailed}
       /\ BusyCleared
       /\ last.sub \notin Polling )

\* C8: a submission request that fails at the transport level (no response,
\* or a non-success response) aborts the submission: an error is shown, no
\* poll timer is scheduled, the client accepts a new submission, and no status
\* request is issued for that submission later either (a submission with
\* nothing outstanding never gets a timer or a request again).
C8_SubmissionTransportFailure ==
  /\ [](TransportFailed("submitResp")
        => ( /\ outcomes[last.sub] = <<"error">>
             /\ ErrorShown
             /\ Ready
             /\ last.sub \notin InProgress ))
  /\ [][\A j \in Jobs : (j <= nSubmit /\ j \notin InProgress) => j \notin InProgress']_vars

\* C8 (witness): a submission request has just failed at the transport level
\* while an earlier job is still being polled
C8_Witness ==
  /\ TransportFailed("submitResp")
  /\ last.sub = 2
  /\ 1 \in Polling

\* C9: a submission response with status completed and a non-null result
\* delivers the result exactly once and schedules no poll.
C9_SynchronousResolution ==
  ( Answered("submitResp") /\ LastStatus = Str("completed") /\ LastHasResult )
  => ( outcomes[last.sub] = <<"result">> /\ last.sub \notin Polling )

\* C10: normalizeResult never throws and returns a summary and a categories
\* mapping, so a response of the mini-program with status completed and a
\* result always ends the job with the result shown.
C10_NormalizeIsTotal ==
  ( client = "mini" /\ last.kind \in {"submitResp", "pollResp"} /\ last.net # "network"
    /\ LastStatus = Str("completed") /\ LastHasResult )
  => ( /\ ~normalizeResult(Get(last.body, "result")).threw
       /\ outcomes[last.sub] = <<"result">>
       /\ data.result.t = "obj"
       /\ data.result.k = <<"summary", "categories">>
       /\ ~data.loading )

\* the last step of the mini-program normalized the result of a response
Normalized ==
  /\ client = "mini"
  /\ Answered("submitResp")
  /\ LastStatus = Str("completed")
  /\ LastHasResult
  /\ ~normalizeResult(Get(last.body, "result")).threw

\* the categories received with that response and the categories shown
CatsIn == Or(Get(Get(last.body, "result"), "categories"), EmptyObj)
CatsOut == Get(data.result, "categories")

\* C11: normalizeResult returns the categories in the order received and, in
\* each category, as many hits as received in the order received (a hit is
\* told by its severity and title).
C11_OrderPreserved ==
  Normalized
  => ( /\ CatsOut.k = CatsIn.k
       /\ data.keys = CatsIn.k
       /\ \A c \in 1..Len(CatsIn.k) :
            LET name == CatsIn.k[c]
                hin == Get(CatsIn, name).v
                hout == Get(CatsOut, name).v
            IN /\ Len(hout) = Len(hin)
               /\ \A i \in 1..Len(hin) :
                    /\ Get(hout[i], "severity") = Get(hin[i], "severity")
                    /\ Get(hout[i], "title") = Get(hin[i], "title") )

\* C12: each of the codes critical, high, medium, low has its fixed label, and
\* any other severity string is its own label, character for character, in
\* the hits the mini-program normalizes and in the web client's severity pill.
C12_SeverityLabel ==
  Normalized
  => \A c \in 1..Len(CatsIn.k) :
       LET name == CatsIn.k[c]
           hin == Get(CatsIn, name).v
           hout == Get(CatsOut, name).v
       IN \A i \in 1..Len(hin) :
            LET sev == Get(hin[i], "severity")
                expected == IF sev.s \in SeverityCodes THEN severityMap(sev.s) ELSE sev
            IN sev.t = "str"
               => ( /\ expected.t = "str"
                    /\ Get(hout[i], "severityLabel") = expected
                    /\ WebSeverityLabel(hin[i]) = expected )

\* C13: a job never has more than one poll timer or status request
\* outstanding, and a poll timer of a job is scheduled only by the step that
\* processes the response to the job's previous request (its submission or
\* its previous status request), so the responses of a job are processed in
\* the order of their requests.
C13_OnePollPerJob ==
  /\ [](\A j \in Jobs : Cardinality(TimersOf(j)) + Cardinality(PollsOf(j)) <= 1)
  /\ [][\A j \in Jobs :
          ~(TimersOf(j)' \subseteq TimersOf(j))
          => ( /\ last'.kind \in {"submitResp", "pollResp"}
               /\ last'.sub = j
               /\ \/ j \in requests /\ j \notin requests'
                  \/ PollsOf(j) # {} /\ PollsOf(j)' = {} )]_vars

\* C13 (witness): a poll response of a job has just been processed and left
\* the job's next poll timer pending
C13_Witness ==
  /\ Answered("pollResp")
  /\ Cardinality(TimersOf(last.sub)) = 1
  /\ PollsOf(last.sub) = {}

\* C14: in the web client a click on Analyze or Clear invalidates every poll
\* timer that is pending at the click: none of them is pending after the
\* click, so none can fire and issue GET /jobs/{id} for its job (a status
\* request is only ever issued by a pending timer that fires).
C14_ClickInvalidatesTimers ==
  [][ (client = "web" /\ last'.kind \in {"analyze", "clear"})
      => \A t \in timers : t \notin timers' ]_vars

\* C15: a step delivers a result to the display as the completed analysis of
\* a job only when it handles a response about that job which reports status
\* completed and carries a result (in both clients, for the submission
\* response and for poll responses).
C15_CompletedNeedsResult ==
  [][ \A j \in Jobs :
        ( outcomes'[j] # outcomes[j] /\ outcomes'[j][Len(outcomes'[j])] = "result" )
        => ( /\ last'.kind \in {"submitResp", "pollResp"}
             /\ last'.sub = j
             /\ Get(last'.body, "status") = Str("completed")
             /\ Truthy(Get(last'.body, "result")) ) ]_vars

\* C16: in the web client a response (to the submission or to a poll) with
\* status completed and a result ends in the completed outcome: the status
\* line reads '分析完成 ✅' without the error mark, the progress indicator is
\* hidden and no error outcome is shown, whichever sections the result has.
C16_CompletedRenders ==
  ( /\ client = "web"
    /\ Answered("submitResp") \/ Answered("pollResp")
    /\ LastStatus = Str("completed")
    /\ LastHasResult )
  => ( /\ outcomes[last.sub] = <<"result">>
       /\ els.status.text = TxtDone
       /\ ~els.status.error
       /\ els.progress.hidden )

\* the fields of a hit that the canonical model names (ruleId, title,
\* severity, evidence, description, recommendation) or that the normalizer
\* writes (severityLabel, items, evidences)
KnownHitFields ==
  { "ruleId", "title", "severity", "evidence", "description", "recommendation",
    "severityLabel", "items", "evidences" }

\* a hit without the fields that are not known
StripHit(h) ==
  LET keep == SelectSeq([i \in 1..Len(h.k) |-> i], LAMBDA i : h.k[i] \in KnownHitFields)
  IN Obj([i \in 1..Len(keep) |-> h.k[keep[i]]], [i \in 1..Len(keep) |-> h.v[keep[i]]])

\* C17: the normalized result has the fields summary and categories only,
\* every normalized hit has known fields only, and a hit normalizes to the
\* same record as the hit without its unknown fields.
C17_UnknownFieldsIgnored ==
  Normalized
  => ( /\ data.result.k = <<"summary", "categories">>
       /\ \A c \in 1..Len(CatsIn.k) :
            LET name == CatsIn.k[c]
                hin == Get(CatsIn, name).v
                hout == Get(CatsOut, name).v
            IN \A i \in 1..Len(hin) :
                 /\ \A x \in 1..Len(hout[i].k) : hout[i].k[x] \in KnownHitFields
                 /\ hout[i] = NormalizeItem(StripHit(hin[i])) )

\* C18: in the web client the step that processes a poll response of one job
\* leaves the pending poll timers of every other job pending.
C18_OtherTimersSurvive ==
  [][ (client = "web" /\ last'.kind = "pollResp")
      => \A t \in timers : t.sub # last'.sub => t \in timers' ]_vars

\* C19: in every quiescent state (no submission request in flight, no poll
\* timer pending, no status request in flight) the busy indicator is off: the
\* web client has the progress indicator hidden and the Analyze button
\* enabled, the mini-program has loading = false.
C19_BusyMatchesWork ==
  (requests = {} /\ timers = {} /\ polls = {})
  => IF client = "web"
     THEN els.progress.hidden /\ ~els.analyzeDisabled
     ELSE ~data.loading

=============================================================================
